---- MODULE Spec2Model ----
(***************************************************************************)
(* Flowchart manager backend: the graph validator (utils/validateGraph.js) *)
(* and the request handlers of routes/flowcharts.js, over a document store *)
(* keyed by the user-provided numerical _id.                               *)
(*                                                                         *)
(* Three specifications share the module:                                  *)
(*   Spec        the HTTP handlers acting on the store;                    *)
(*   SpecEngine  validateGraph and the connected-nodes traversal applied   *)
(*               as pure functions to every input within the bounds;       *)
(*   SpecDfs     the connected-nodes traversal run call by call, with the  *)
(*               fairness of a synchronous JavaScript call.                *)
(***************************************************************************)
EXTENDS Naturals, Sequences, FiniteSets

VARIABLES
  store,       \* Spec: the flowcharts collection, a function _id -> document
  pending,     \* Spec: the documents whose save() a PUT handler awaits
  request,     \* Spec: the request whose response is in flight
  response,    \* Spec: the response in flight to the client
  nodes,       \* SpecEngine, SpecDfs: the node list given to the engine
  edges,       \* SpecEngine, SpecDfs: the edge list given to the engine
  startId,     \* SpecEngine, SpecDfs: the :nodeId of the connected query
  validation,  \* SpecEngine: what validateGraph(nodes, edges) returned
  connected,   \* SpecEngine: what the connected-nodes computation produced
  pc,          \* SpecDfs: "build" | "dfs" | "done" | "raised"
  adjList,     \* SpecDfs: the adjList object (own properties, prototype)
  frames,      \* SpecDfs: the call stack of dfs, innermost last
  visited,     \* SpecDfs: the visited Set
  result,      \* SpecDfs: the result array
  calls        \* SpecDfs: how many times dfs(n) was entered, per id

vars == <<store, pending, request, response, nodes, edges, startId, validation, connected,
          pc, adjList, frames, visited, result, calls>>

(***************************************************************************)
(* Bounds and input universes.                                             *)
(***************************************************************************)
MaxNodes == 3
MaxEdges == 2
MaxId == 1
BodyMaxNodes == 2
BodyMaxEdges == 1
MaxPending == 1
MaxVersion == 2

\* Node identifiers are arbitrary strings.  "constructor" is one string that
\* is also a property every plain JavaScript object inherits, "__proto__"
\* the one that names the prototype of the object itself.
Ids == {"1", "2", "3", "constructor", "__proto__"}

\* The twelve own property names of Object.prototype, which `{}` inherits;
\* reading one of them from an object that has no own property of that name
\* yields a truthy value that is no array: a function, and for "__proto__"
\* Object.prototype itself (not iterable, without a push method).
ObjectPrototypeKeys ==
  {"constructor", "toString", "valueOf", "hasOwnProperty", "isPrototypeOf",
   "propertyIsEnumerable", "toLocaleString",
   "__defineGetter__", "__defineSetter__", "__lookupGetter__", "__lookupSetter__",
   "__proto__"}

Labels == {"L"}

\* The identifiers of the documents the traversal of SpecDfs reads.
BodyIds == {"1", "2", "constructor", "__proto__"}

\* Flowchart _ids and flowchart names.
FlowchartIds == 1..MaxId
Names == {"A", "B"}

NodesOver(ids) == [id : ids, label : Labels]
EdgesOver(ids) == [source : ids, target : ids]

SeqsUpTo(S, n) == UNION {[1..k -> S] : k \in 0..n}

Range(s) == {s[i] : i \in 1..Len(s)}

NoDuplicates(s) == \A i, j \in 1..Len(s) : s[i] = s[j] => i = j

\* Node lists whose identifiers are unique within the graph.
NodeLists(ids, n) ==
  {ns \in SeqsUpTo(NodesOver(ids), n) : NoDuplicates([i \in 1..Len(ns) |-> ns[i].id])}
EdgeLists(ids, n) == SeqsUpTo(EdgesOver(ids), n)

(***************************************************************************)
(* Plain JavaScript objects used as maps.  An object is modelled by the    *)
(* function of its own properties; a read falls back to Object.prototype.  *)
(***************************************************************************)
\* The values the flag objects hold, as JavaScript prints them.
Undefined == "undefined"
Inherited == "function"
JsTrue == "true"
JsFalse == "false"

\* obj[key]
GetProp(obj, key) ==
  IF key \in DOMAIN obj THEN obj[key]
  ELSE IF key \in ObjectPrototypeKeys THEN Inherited
  ELSE Undefined

\* the truthiness of a value in `if (v)` and `!v`
Truthy(v) == v # Undefined /\ v # JsFalse

\* obj[key] = val for a boolean val.  "__proto__" is the accessor of
\* Object.prototype: given a primitive its setter does nothing, and no own
\* property is created.
SetProp(obj, key, val) ==
  IF key = "__proto__" THEN obj
  ELSE [k \in DOMAIN obj \cup {key} |-> IF k = key THEN val ELSE obj[k]]

\* {}
EmptyObject == [k \in {} |-> Undefined]

(***************************************************************************)
(* The adjList object.  Its values are arrays, so the assignment           *)
(* adjList["__proto__"] = [] replaces its prototype by that array: adjList *)
(* gets no own property, and a read of a key it does not own then goes     *)
(* through the array (its elements under "0", "1", ..., its length) and    *)
(* through Array.prototype before it reaches Object.prototype.             *)
(***************************************************************************)
\* The own property names of Array.prototype.
ArrayPrototypeKeys ==
  {"length", "constructor", "at", "concat", "copyWithin", "fill", "find",
   "findIndex", "findLast", "findLastIndex", "lastIndexOf", "pop", "push",
   "reverse", "shift", "unshift", "slice", "sort", "splice", "includes",
   "indexOf", "join", "keys", "entries", "values", "forEach", "filter",
   "flat", "flatMap", "map", "every", "some", "reduce", "reduceRight",
   "toLocaleString", "toString", "toReversed", "toSorted", "toSpliced",
   "with"}

\* the property names of the elements of an array, in order
IndexKeys == <<"0", "1", "2", "3", "4", "5", "6", "7", "8", "9">>

\* the characters `for...of` takes from a string; an identifier that is not
\* spelled out here stands for a single character
Chars(s) ==
  IF s = "" THEN <<>>
  ELSE IF s = "constructor"
       THEN <<"c", "o", "n", "s", "t", "r", "u", "c", "t", "o", "r">>
  ELSE IF s = "toString"
       THEN <<"t", "o", "S", "t", "r", "i", "n", "g">>
  ELSE IF s = "valueOf"
       THEN <<"v", "a", "l", "u", "e", "O", "f">>
  ELSE IF s = "hasOwnProperty"
       THEN <<"h", "a", "s", "O", "w", "n", "P", "r", "o", "p", "e", "r",
              "t", "y">>
  ELSE IF s = "isPrototypeOf"
       THEN <<"i", "s", "P", "r", "o", "t", "o", "t", "y", "p", "e", "O", "f">>
  ELSE IF s = "propertyIsEnumerable"
       THEN <<"p", "r", "o", "p", "e", "r", "t", "y", "I", "s", "E", "n",
              "u", "m", "e", "r", "a", "b", "l", "e">>
  ELSE IF s = "toLocaleString"
       THEN <<"t", "o", "L", "o", "c", "a", "l", "e", "S", "t", "r", "i",
              "n", "g">>
  ELSE IF s = "__defineGetter__"
       THEN <<"_", "_", "d", "e", "f", "i", "n", "e", "G", "e", "t", "t",
              "e", "r", "_", "_">>
  ELSE IF s = "__defineSetter__"
       THEN <<"_", "_", "d", "e", "f", "i", "n", "e", "S", "e", "t", "t",
              "e", "r", "_", "_">>
  ELSE IF s = "__lookupGetter__"
       THEN <<"_", "_", "l", "o", "o", "k", "u", "p", "G", "e", "t", "t",
              "e", "r", "_", "_">>
  ELSE IF s = "__lookupSetter__"
       THEN <<"_", "_", "l", "o", "o", "k", "u", "p", "S", "e", "t", "t",
              "e", "r", "_", "_">>
  ELSE IF s = "__proto__"
       THEN <<"_", "_", "p", "r", "o", "t", "o", "_", "_">>
  ELSE <<s>>

\* every string dfs can be called with: an identifier or one of its characters
CallIds == Ids \cup UNION {Range(Chars(id)) : id \in Ids}

\* A JavaScript value read from adjList: its typeof, the elements for...of
\* takes from it (array, string), and its magnitude (number).
Value(type, items, n) == [type |-> type, items |-> items, n |-> n]
ArrayValue(items) == Value("array", items, 0)
StringValue(s) == Value("string", Chars(s), 0)
NumberValue(n) == Value("number", <<>>, n)
FunctionValue == Value("function", <<>>, 0)
ObjectValue == Value("object", <<>>, 0)
UndefinedValue == Value("undefined", <<>>, 0)

\* the truthiness of v in `v || []`
TruthyValue(v) ==
  /\ v.type # "undefined"
  /\ v.type = "string" => v.items # <<>>
  /\ v.type = "number" => v.n # 0

\* const adjList = {}
NewAdjList == [own |-> EmptyObject, proto |-> [array |-> FALSE, items |-> <<>>]]

\* adjList[key]
ReadAdj(adj, key) ==
  IF key \in DOMAIN adj.own THEN ArrayValue(adj.own[key])
  ELSE IF key = "__proto__"
       THEN IF adj.proto.array THEN ArrayValue(adj.proto.items) ELSE ObjectValue
  ELSE IF adj.proto.array /\ \E i \in 1..Len(adj.proto.items) :
                               i <= Len(IndexKeys) /\ IndexKeys[i] = key
       THEN StringValue(adj.proto.items[CHOOSE i \in 1..Len(adj.proto.items) :
                                          i <= Len(IndexKeys) /\ IndexKeys[i] = key])
  ELSE IF adj.proto.array /\ key = "length" THEN NumberValue(Len(adj.proto.items))
  ELSE IF adj.proto.array /\ key \in ArrayPrototypeKeys THEN FunctionValue
  ELSE IF key \in ObjectPrototypeKeys THEN FunctionValue
  ELSE UndefinedValue

\* adjList[key] = []
AssignArray(adj, key) ==
  IF key = "__proto__" THEN [adj EXCEPT !.proto = [array |-> TRUE, items |-> <<>>]]
  ELSE [adj EXCEPT !.own = [k \in DOMAIN adj.own \cup {key} |->
                              IF k = key THEN <<>> ELSE adj.own[k]]]

(***************************************************************************)
(* utils/validateGraph.js                                                  *)
(***************************************************************************)
Valid == [valid |-> TRUE]
EdgeReferencesInvalidNode == [valid |-> FALSE, message |-> "Edge references invalid nodes"]
GraphContainsCycle == [valid |-> FALSE, message |-> "Graph contains a cycle"]

\* new Set(nodes.map(node => node.id)), in insertion order
nodeIds(ns) == {ns[i].id : i \in 1..Len(ns)}

RECURSIVE nodeIdOrderFrom(_, _, _)
nodeIdOrderFrom(ns, i, acc) ==
  IF i > Len(ns) THEN acc
  ELSE nodeIdOrderFrom(ns, i + 1,
         IF ns[i].id \in Range(acc) THEN acc ELSE Append(acc, ns[i].id))

nodeIdOrder(ns) == nodeIdOrderFrom(ns, 1, <<>>)

edgeRefsValidSourceOnly(ids, edge) == edge.source \in ids

\* !nodeIds.has(edge.source) || !nodeIds.has(edge.target), negated
edgeRefsValid(ids, edge) == edge.source \in ids /\ edge.target \in ids

\* the edges the reference loop returns on, in list order
invalidEdges(ns, es) == {i \in 1..Len(es) : ~edgeRefsValid(nodeIds(ns), es[i])}

firstInvalidEdge(ns, es) ==
  CHOOSE i \in invalidEdges(ns, es) : \A j \in invalidEdges(ns, es) : i <= j

referenceFailureNaming(ids, edge) ==
  [valid |-> FALSE, message |-> "Edge references invalid nodes",
   identifier |-> IF edge.source \notin ids THEN edge.source ELSE edge.target]

\* return { valid: false, message: 'Edge references invalid nodes' }
referenceFailure(ids, edge) == EdgeReferencesInvalidNode

\* a TypeError thrown by the computation, with its err.message
Thrown(msg) == [raised |-> TRUE, error |-> "TypeError", message |-> msg]
Raised(r) == "raised" \in DOMAIN r /\ r.raised

\* the texts of the TypeErrors, as Node 20 words them
PushOfUndefined == "Cannot read properties of undefined (reading 'push')"
PushNotFunction == "adjList[edge.source].push is not a function"
NotIterable == "adjList[node] is not iterable"
FunctionNotIterable ==
  "function is not iterable (cannot read property Symbol(Symbol.iterator))"
ObjectNotIterable ==
  "object is not iterable (cannot read property Symbol(Symbol.iterator))"
NumberNotIterable ==
  <<"number 1 is not iterable (cannot read property Symbol(Symbol.iterator))",
    "number 2 is not iterable (cannot read property Symbol(Symbol.iterator))",
    "number 3 is not iterable (cannot read property Symbol(Symbol.iterator))",
    "number 4 is not iterable (cannot read property Symbol(Symbol.iterator))",
    "number 5 is not iterable (cannot read property Symbol(Symbol.iterator))",
    "number 6 is not iterable (cannot read property Symbol(Symbol.iterator))",
    "number 7 is not iterable (cannot read property Symbol(Symbol.iterator))",
    "number 8 is not iterable (cannot read property Symbol(Symbol.iterator))",
    "number 9 is not iterable (cannot read property Symbol(Symbol.iterator))">>
\* the text of the same TypeError once the engine has optimised dfs
OptimisedNotIterable == "undefined is not a function"

\* the TypeError of a push on v, which is no array: undefined has no
\* properties, any other value has no push
pushError(v) == IF v.type = "undefined" THEN PushOfUndefined ELSE PushNotFunction

\* adjList[edge.source].push(edge.target)
push(adj, edge) ==
  IF edge.source \in DOMAIN adj.own
  THEN [raised |-> FALSE,
        adjList |-> [adj EXCEPT !.own[edge.source] = Append(@, edge.target)]]
  ELSE IF edge.source = "__proto__" /\ adj.proto.array
  THEN [raised |-> FALSE,
        adjList |-> [adj EXCEPT !.proto.items = Append(@, edge.target)]]
  ELSE Thrown(pushError(ReadAdj(adj, edge.source)))

\* edges.forEach(edge => { adjList[edge.source].push(edge.target); }): the
\* first push that throws ends the loop
RECURSIVE pushEdges(_, _, _)
pushEdges(adj, es, i) ==
  IF i > Len(es) THEN [raised |-> FALSE, adjList |-> adj]
  ELSE LET r == push(adj, es[i]) IN
       IF r.raised THEN r ELSE pushEdges(r.adjList, es, i + 1)

\* adjList = {}; nodes.forEach(node => { adjList[node.id] = []; })
RECURSIVE declareNodes(_, _, _)
declareNodes(adj, ns, i) ==
  IF i > Len(ns) THEN adj ELSE declareNodes(AssignArray(adj, ns[i].id), ns, i + 1)

emptyAdjList(ns) == declareNodes(NewAdjList, ns, 1)

\* for (let neighbor of v) takes the elements of an array and the characters
\* of a string; any other value is not iterable
Iterable(v) == v.type \in {"array", "string"}

\* isCyclicUtil and its for-loop over adjList[node].  ctx holds the own
\* properties of the `visited` and `recStack` objects.  The outcome is
\* "true", "false" or "TypeError" (adjList[node] is not iterable).
RECURSIVE isCyclicUtil(_, _, _)
RECURSIVE cyclicLoop(_, _, _, _)
isCyclicUtil(adj, node, ctx) ==
  IF ~Truthy(GetProp(ctx.visited, node))
  THEN LET entered == [visited |-> SetProp(ctx.visited, node, JsTrue),
                       recStack |-> SetProp(ctx.recStack, node, JsTrue)]
           r == IF Iterable(ReadAdj(adj, node))
                THEN cyclicLoop(adj, node, 1, entered)
                ELSE [cyclic |-> "TypeError", ctx |-> entered]
       IN IF r.cyclic # "false" THEN r
          ELSE [cyclic |-> "false",
                ctx |-> [r.ctx EXCEPT !.recStack = SetProp(@, node, JsFalse)]]
  ELSE [cyclic |-> "false", ctx |-> [ctx EXCEPT !.recStack = SetProp(@, node, JsFalse)]]

cyclicLoop(adj, node, i, ctx) ==
  IF i > Len(ReadAdj(adj, node).items) THEN [cyclic |-> "false", ctx |-> ctx]
  ELSE LET neighbor == ReadAdj(adj, node).items[i] IN
    IF ~Truthy(GetProp(ctx.visited, neighbor))
    THEN LET r == isCyclicUtil(adj, neighbor, ctx) IN
         IF r.cyclic # "false" THEN r
         ELSE IF Truthy(GetProp(r.ctx.recStack, neighbor))
              THEN [cyclic |-> "true", ctx |-> r.ctx]
              ELSE cyclicLoop(adj, node, i + 1, r.ctx)
    ELSE IF Truthy(GetProp(ctx.recStack, neighbor))
         THEN [cyclic |-> "true", ctx |-> ctx]
         ELSE cyclicLoop(adj, node, i + 1, ctx)

\* for (const node of nodeIds) if (isCyclicUtil(node)) return cycle failure
RECURSIVE anyCyclic(_, _, _, _)
anyCyclic(adj, order, i, ctx) ==
  IF i > Len(order) THEN "false"
  ELSE LET r == isCyclicUtil(adj, order[i], ctx) IN
       IF r.cyclic # "false" THEN r.cyclic
       ELSE anyCyclic(adj, order, i + 1, r.ctx)

validateGraph(ns, es) ==
  IF invalidEdges(ns, es) # {}
  THEN referenceFailure(nodeIds(ns), es[firstInvalidEdge(ns, es)])
  ELSE LET built == pushEdges(emptyAdjList(ns), es, 1) IN
       IF built.raised THEN built
       ELSE LET cyclic == anyCyclic(built.adjList, nodeIdOrder(ns), 1,
                                    [visited |-> EmptyObject, recStack |-> EmptyObject])
            IN IF cyclic = "TypeError" THEN Thrown(NotIterable)
               ELSE IF cyclic = "true" THEN GraphContainsCycle
               ELSE Valid

(***************************************************************************)
(* routes/flowcharts.js, GET /:id/connected/:nodeId: the adjacency list    *)
(* and the depth-first traversal, as one computation on (nodes, edges,     *)
(* nodeId).  A TypeError thrown on the way is caught by the handler.       *)
(***************************************************************************)
\* adjList = {}; one empty array per node; one push per edge.  A push
\* throws a TypeError unless adjList[edge.source] is an array.
buildAdjList(ns, es) == pushEdges(emptyAdjList(ns), es, 1)

\* adjList[current] || []  is the empty array when adjList[current] is
\* falsy; a truthy value is iterable when it is an array or a string
neighborsIterable(adj, current) ==
  ~TruthyValue(ReadAdj(adj, current)) \/ Iterable(ReadAdj(adj, current))

neighborsOf(adj, current) ==
  IF TruthyValue(ReadAdj(adj, current)) THEN ReadAdj(adj, current).items ELSE <<>>

\* err.message of for...of on a truthy value that is not iterable, as a
\* process words it before the engine has optimised dfs
iterationError(v) ==
  IF v.type = "function" THEN FunctionNotIterable
  ELSE IF v.type = "number" /\ v.n \in 1..Len(NumberNotIterable)
       THEN NumberNotIterable[v.n]
  ELSE ObjectNotIterable

\* dfs(current) and its for-loop; acc = [visited, result, raised, message]
discoverUnmarked(acc, neighbor) == [acc EXCEPT !.result = Append(@, neighbor)]

\* visited.add(neighbor); result.push(neighbor)
discover(acc, neighbor) ==
  [acc EXCEPT !.visited = @ \cup {neighbor}, !.result = Append(@, neighbor)]

RECURSIVE dfs(_, _, _)
RECURSIVE dfsLoop(_, _, _, _)
dfs(adj, current, acc) ==
  IF ~neighborsIterable(adj, current)
  THEN [acc EXCEPT !.raised = TRUE, !.message = iterationError(ReadAdj(adj, current))]
  ELSE dfsLoop(adj, neighborsOf(adj, current), 1, acc)

dfsLoop(adj, nbrs, i, acc) ==
  IF acc.raised \/ i > Len(nbrs) THEN acc
  ELSE LET neighbor == nbrs[i] IN
    IF neighbor \notin acc.visited
    THEN dfsLoop(adj, nbrs, i + 1, dfs(adj, neighbor, discover(acc, neighbor)))
    ELSE dfsLoop(adj, nbrs, i + 1, acc)

connectedNodes(ns, es, nodeId) ==
  LET built == buildAdjList(ns, es) IN
  IF built.raised THEN built
  ELSE LET acc == dfs(built.adjList, nodeId,
                      [visited |-> {}, result |-> <<>>, raised |-> FALSE, message |-> ""])
       IN IF acc.raised THEN Thrown(acc.message)
          ELSE [raised |-> FALSE, connectedNodes |-> acc.result]

\* The texts of the TypeError of line 534: the same error is worded
\* "undefined is not a function" by a process that has optimised dfs.
IterationErrors ==
  {FunctionNotIterable, ObjectNotIterable} \cup
    {NumberNotIterable[n] : n \in 1..Len(NumberNotIterable)}

\* what the catch of the handler receives from the computation
caught(r, optimised) ==
  IF r.raised /\ optimised /\ r.message \in IterationErrors
  THEN Thrown(OptimisedNotIterable)
  ELSE r

(***************************************************************************)
(* SpecEngine: the two computations applied to every input in the bounds.  *)
(***************************************************************************)
NotRun == [notRun |-> TRUE]
NoStore == [id \in {} |-> NotRun]

IdleDfs ==
  /\ pc = "idle" /\ adjList = NewAdjList /\ frames = <<>>
  /\ visited = {} /\ result = <<>> /\ calls = [n \in CallIds |-> 0]

InitEngine ==
  /\ nodes \in NodeLists(Ids, MaxNodes)
  /\ edges \in EdgeLists(Ids, MaxEdges)
  /\ startId \in Ids
  /\ validation = NotRun
  /\ connected = NotRun
  /\ store = NoStore
  /\ pending = {}
  /\ request = NotRun
  /\ response = NotRun
  /\ IdleDfs

Validate ==
  /\ validation = NotRun
  /\ validation' = validateGraph(nodes, edges)
  /\ UNCHANGED <<store, pending, request, response, nodes, edges, startId, connected,
                 pc, adjList, frames, visited, result, calls>>

Connected ==
  /\ connected = NotRun
  /\ \E optimised \in BOOLEAN :
       connected' = caught(connectedNodes(nodes, edges, startId), optimised)
  /\ UNCHANGED <<store, pending, request, response, nodes, edges, startId, validation,
                 pc, adjList, frames, visited, result, calls>>

NextEngine == Validate \/ Connected

SpecEngine == InitEngine /\ [][NextEngine]_vars

(***************************************************************************)
(* SpecDfs: the connected-nodes computation run one call step at a time.   *)
(* A frame is one activation of dfs: the node it expands and the index of  *)
(* the next neighbor its for-loop takes.  The handler runs synchronously   *)
(* to completion, hence the weak fairness of the steps.  The flowchart it   *)
(* reads is any document over the identifiers BodyIds, validated or not;   *)
(* the :nodeId is any identifier.                                          *)
(***************************************************************************)
InitDfs ==
  /\ nodes \in NodeLists(BodyIds, MaxNodes)
  /\ edges \in EdgeLists(BodyIds, MaxEdges)
  /\ startId \in Ids
  /\ validation = NotRun
  /\ connected = NotRun
  /\ store = NoStore
  /\ pending = {}
  /\ request = NotRun
  /\ response = NotRun
  /\ pc = "build"
  /\ adjList = NewAdjList
  /\ frames = <<>>
  /\ visited = {}
  /\ result = <<>>
  /\ calls = [n \in CallIds |-> 0]

top == frames[Len(frames)]

\* lines 526-528 throw: the handler's catch answers, dfs is never called
BuildRaises ==
  /\ pc = "build"
  /\ buildAdjList(nodes, edges).raised
  /\ pc' = "raised"
  /\ UNCHANGED <<store, pending, request, response, nodes, edges, startId, validation, connected,
                 adjList, frames, visited, result, calls>>

\* lines 526-531 and the call dfs(nodeId) of line 543
BuildAndCall ==
  /\ pc = "build"
  /\ ~buildAdjList(nodes, edges).raised
  /\ adjList' = buildAdjList(nodes, edges).adjList
  /\ frames' = <<[current |-> startId, i |-> 1]>>
  /\ calls' = [calls EXCEPT ![startId] = @ + 1]
  /\ pc' = "dfs"
  /\ UNCHANGED <<store, pending, request, response, nodes, edges, startId, validation, connected,
                 visited, result>>

\* for (const neighbor of adjList[current] || []) on a function: TypeError,
\* which unwinds every activation
DfsRaises ==
  /\ pc = "dfs"
  /\ ~neighborsIterable(adjList, top.current)
  /\ pc' = "raised"
  /\ frames' = <<>>
  /\ UNCHANGED <<store, pending, request, response, nodes, edges, startId, validation, connected,
                 adjList, visited, result, calls>>

\* the loop takes an unvisited neighbor: lines 535-538
DfsVisit ==
  /\ pc = "dfs"
  /\ neighborsIterable(adjList, top.current)
  /\ top.i <= Len(neighborsOf(adjList, top.current))
  /\ LET neighbor == neighborsOf(adjList, top.current)[top.i]
         acc == discover([visited |-> visited, result |-> result, raised |-> FALSE],
                         neighbor)
     IN /\ neighbor \notin visited
        /\ visited' = acc.visited
        /\ result' = acc.result
        /\ frames' = Append([frames EXCEPT ![Len(frames)].i = @ + 1],
                            [current |-> neighbor, i |-> 1])
        /\ calls' = [calls EXCEPT ![neighbor] = @ + 1]
  /\ UNCHANGED <<store, pending, request, response, nodes, edges, startId, validation, connected,
                 pc, adjList>>

\* the loop passes over a visited neighbor: line 535 is false
DfsSkip ==
  /\ pc = "dfs"
  /\ neighborsIterable(adjList, top.current)
  /\ top.i <= Len(neighborsOf(adjList, top.current))
  /\ neighborsOf(adjList, top.current)[top.i] \in visited
  /\ frames' = [frames EXCEPT ![Len(frames)].i = @ + 1]
  /\ UNCHANGED <<store, pending, request, response, nodes, edges, startId, validation, connected,
                 pc, adjList, visited, result, calls>>

\* the loop is exhausted: dfs returns; the outermost return reaches line 544
DfsReturn ==
  /\ pc = "dfs"
  /\ neighborsIterable(adjList, top.current)
  /\ top.i > Len(neighborsOf(adjList, top.current))
  /\ frames' = SubSeq(frames, 1, Len(frames) - 1)
  /\ pc' = IF Len(frames) = 1 THEN "done" ELSE "dfs"
  /\ UNCHANGED <<store, pending, request, response, nodes, edges, startId, validation, connected,
                 adjList, visited, result, calls>>

NextDfs ==
  BuildRaises \/ BuildAndCall \/ DfsRaises \/ DfsVisit \/ DfsSkip \/ DfsReturn

SpecDfs == InitDfs /\ [][NextDfs]_vars /\ WF_vars(NextDfs)

(***************************************************************************)
(* Spec: routes/flowcharts.js over the flowcharts collection.  A step is   *)
(* one operation on the collection with the synchronous code around it:    *)
(* every handler has one, except PUT, which reads the document and later   *)
(* saves it, other requests being served in between.  A request body is a  *)
(* record holding the fields that were sent: a field that was not sent     *)
(* reads as undefined.                                                     *)
(***************************************************************************)
Has(body, f) == f \in DOMAIN body

\* The identifiers the bodies of HTTP requests draw from, and the names a
\* PUT may carry: the empty string is a name that is sent and falsy.
RequestIds == {"1", "constructor"}
PutNames == Names \cup {""}

BodyNodeLists == NodeLists(RequestIds, BodyMaxNodes)
BodyEdgeLists == EdgeLists(RequestIds, BodyMaxEdges)

PostBodies ==
  [_id : FlowchartIds, name : Names, nodes : BodyNodeLists, edges : BodyEdgeLists]
    \cup [name : Names, nodes : BodyNodeLists, edges : BodyEdgeLists]
    \cup [_id : FlowchartIds, nodes : BodyNodeLists, edges : BodyEdgeLists]

PutBodies ==
  [name : PutNames, nodes : BodyNodeLists, edges : BodyEdgeLists]
    \cup [nodes : BodyNodeLists, edges : BodyEdgeLists]
    \cup [name : PutNames, nodes : BodyNodeLists]
    \cup [name : PutNames, edges : BodyEdgeLists]
    \cup [name : PutNames]

Reply(status, body) == [status |-> status, body |-> body]
Message(status, text) == Reply(status, [message |-> text])

InvalidIdFormat == Message(400, "Invalid _id format. It should be a number.")
NotFound == Message(404, "Flowchart not found")

\* res.status(500).json({ message: 'Server error', error: err.message })
ServerError(text) == Reply(500, [message |-> "Server error", error |-> text])

\* new Flowchart({ _id, name, nodes, edges }) as flowchart.save() inserts it:
\* mongoose adds the version key __v, which starts at 0.  The timestamps
\* createdAt and updatedAt, which no handler reads, are left out.
Flowchart(id, name, ns, es) ==
  [_id |-> id, name |-> name, nodes |-> ns, edges |-> es, __v |-> 0]

\* the outcome of a handler: the collection afterwards and the response
Outcome(st, rsp) == [store |-> st, response |-> rsp]

\* a handler that has issued flowchart.save() and awaits it: the document
\* it holds in memory and the paths mongoose has marked modified on it
Awaiting(st, flowchart, modified) ==
  [store |-> st, save |-> [flowchart |-> flowchart, modified |-> modified]]

Insert(st, doc) == [k \in DOMAIN st \cup {doc._id} |-> IF k = doc._id THEN doc ELSE st[k]]
Remove(st, id) == [k \in DOMAIN st \ {id} |-> st[k]]

\* err.message of the mongoose ValidationError for a missing name:
\* "Flowchart validation failed: name: Path", the path between two
\* backquotes, "is required."  A string of this notation cannot hold the
\* backquote, which stands here as its character code.
Backquote == 96
ValidationErrorMessage ==
  <<"Flowchart validation failed: name: Path ", Backquote, "name", Backquote,
    " is required.">>

\* err.message of the mongoose DocumentNotFoundError: save() found no
\* document of this _id.  The number stands between the pieces of the text.
DocumentNotFoundMessage(id) ==
  <<"No document found for query \"{ _id: ", id, " }\" on model \"Flowchart\"">>

\* modifiedPaths.join(', ') in the text of the VersionError
joined(modified) ==
  IF modified = <<"nodes">> THEN "nodes"
  ELSE IF modified = <<"edges">> THEN "edges"
  ELSE IF modified = <<"nodes", "edges">> THEN "nodes, edges"
  ELSE IF modified = <<"name", "nodes">> THEN "name, nodes"
  ELSE IF modified = <<"name", "edges">> THEN "name, edges"
  ELSE IF modified = <<"name", "nodes", "edges">> THEN "name, nodes, edges"
  ELSE IF modified = <<"name">> THEN "name"
  ELSE ""

\* err.message of the mongoose VersionError: save() of a changed array found
\* no document of this _id at the version the handler had read
VersionErrorMessage(id, version, modified) ==
  <<"No matching document found for id \"", id, "\" version ", version,
    " modifiedPaths \"", joined(modified), "\"">>

\* router.post('/') from the return of validateGraph, v being what it
\* returned or threw
postValidated(st, body, v) ==
  IF Raised(v) THEN Outcome(st, ServerError(v.message))
  ELSE IF ~v.valid THEN Outcome(st, Message(400, v.message))
  ELSE IF ~Has(body, "name")
       THEN Outcome(st, Message(400, ValidationErrorMessage))
  ELSE IF body._id \in DOMAIN st
       THEN Outcome(st, Message(400, "Duplicate _id. A flowchart with this _id already exists."))
  ELSE LET doc == Flowchart(body._id, body.name, body.nodes, body.edges)
       IN Outcome(Insert(st, doc), Reply(201, doc))

\* router.post('/')
post(st, body) ==
  IF ~Has(body, "_id") THEN Outcome(st, Message(400, "Flowchart _id is required."))
  ELSE postValidated(st, body, validateGraph(body.nodes, body.edges))

\* router.get('/:id')
getById(st, id) ==
  IF id \notin DOMAIN st THEN Outcome(st, NotFound)
  ELSE Outcome(st, Reply(200, st[id]))

\* if (name): the name was sent and is not the empty string
nameGiven(body) == Has(body, "name") /\ body.name # ""

\* if (nodes && edges): both were sent (an array, even empty, is truthy)
graphGiven(body) == Has(body, "nodes") /\ Has(body, "edges")

\* if (name) flowchart.name = name, on the document findById returned
renamed(flowchart, body) ==
  IF nameGiven(body) THEN [flowchart EXCEPT !.name = body.name] ELSE flowchart

\* flowchart.nodes = nodes, flowchart.edges = edges: mongoose casts the
\* elements given to subdocuments with an _id of their own, so the array
\* assigned equals the array held, and the path stays unmodified, only when
\* both are empty
arrayModified(held, given) == ~(held = <<>> /\ given = <<>>)

\* flowchart.modifiedPaths() when save() is called, in the order of the
\* assignments of lines 306, 313 and 314; a name equal to the one held
\* leaves the path unmodified
modifiedPaths(flowchart, body) ==
  (IF nameGiven(body) /\ body.name # flowchart.name THEN <<"name">> ELSE <<>>)
    \o (IF graphGiven(body) /\ arrayModified(flowchart.nodes, body.nodes)
        THEN <<"nodes">> ELSE <<>>)
    \o (IF graphGiven(body) /\ arrayModified(flowchart.edges, body.edges)
        THEN <<"edges">> ELSE <<>>)

\* router.put('/:id') from the return of validateGraph, v being what it
\* returned or threw, to the call of flowchart.save(); flowchart is the
\* document findById returned
putValidated(st, flowchart, body, v) ==
  IF Raised(v) THEN Outcome(st, ServerError(v.message))
  ELSE IF ~v.valid THEN Outcome(st, Message(400, v.message))
  ELSE Awaiting(st, [renamed(flowchart, body) EXCEPT !.nodes = body.nodes,
                                                     !.edges = body.edges],
                modifiedPaths(flowchart, body))

putRenamingFirst(st, id, body) ==
  IF id \notin DOMAIN st THEN Outcome(st, NotFound)
  ELSE LET named == IF nameGiven(body) THEN [st[id] EXCEPT !.name = body.name] ELSE st[id]
       IN IF graphGiven(body)
          THEN LET v == validateGraph(body.nodes, body.edges) IN
               IF Raised(v) THEN Outcome(st, ServerError(v.message))
               ELSE IF ~v.valid THEN Outcome(Insert(st, named), Message(400, v.message))
               ELSE Awaiting(st, [named EXCEPT !.nodes = body.nodes, !.edges = body.edges],
                             modifiedPaths(st[id], body))
          ELSE Awaiting(st, named, modifiedPaths(st[id], body))

\* router.put('/:id') from findById to the call of flowchart.save(): the
\* handler answers, or holds the document it has changed in memory and
\* awaits the save
put(st, id, body) ==
  IF id \notin DOMAIN st THEN Outcome(st, NotFound)
  ELSE IF graphGiven(body)
       THEN putValidated(st, st[id], body, validateGraph(body.nodes, body.edges))
       ELSE Awaiting(st, renamed(st[id], body), modifiedPaths(st[id], body))

\* mongoose's save() of a document that is not new.  It updates the one
\* document of the collection matching the filter with the modified paths
\* alone.  A save that sets an array also filters on the version key as the
\* handler read it and increments it; a save with no modified path only
\* looks the document up.

\* the save sets an array: the filter holds __v and the update increments it
versioned(modified) == "nodes" \in Range(modified) \/ "edges" \in Range(modified)

\* the collection holds a document matching the filter of the save
matched(st, flowchart, modified) ==
  /\ flowchart._id \in DOMAIN st
  /\ versioned(modified) => st[flowchart._id].__v = flowchart.__v

\* $set of the modified paths and $inc of the version key on a document
updated(stored, flowchart, modified) ==
  [stored EXCEPT
     !.name = IF "name" \in Range(modified) THEN flowchart.name ELSE @,
     !.nodes = IF "nodes" \in Range(modified) THEN flowchart.nodes ELSE @,
     !.edges = IF "edges" \in Range(modified) THEN flowchart.edges ELSE @,
     !.__v = IF versioned(modified) THEN @ + 1 ELSE @]

\* router.put('/:id') from the save to the response: res.json(flowchart)
\* sends the document the handler holds, whatever the collection holds
\* after the update; a save that matched no document throws, and the
\* catch answers 500 with err.message
save(st, flowchart, modified) ==
  IF matched(st, flowchart, modified)
  THEN Outcome(Insert(st, updated(st[flowchart._id], flowchart, modified)),
               Reply(200, [flowchart EXCEPT
                             !.__v = IF versioned(modified) THEN @ + 1 ELSE @]))
  ELSE IF versioned(modified)
  THEN Outcome(st, ServerError(VersionErrorMessage(flowchart._id, flowchart.__v,
                                                   modified)))
  ELSE Outcome(st, ServerError(DocumentNotFoundMessage(flowchart._id)))

\* router.delete('/:id')
delete(st, id) ==
  IF id \notin DOMAIN st THEN Outcome(st, NotFound)
  ELSE Outcome(Remove(st, id), Message(200, "Flowchart deleted"))

\* flowchart.edges.filter(edge => edge.source === nodeId)
outgoingEdges(es, nodeId) ==
  LET fromNode(e) == e.source = nodeId IN SelectSeq(es, fromNode)

\* router.get('/:id/edges/:nodeId/outgoing'): the body is the array itself
outgoing(st, id, nodeId) ==
  IF id \notin DOMAIN st THEN Outcome(st, NotFound)
  ELSE Outcome(st, Reply(200, outgoingEdges(st[id].edges, nodeId)))

\* router.get('/:id/connected/:nodeId') in a process that has or has not
\* optimised dfs
connectedRoute(st, id, nodeId, optimised) ==
  IF id \notin DOMAIN st THEN Outcome(st, NotFound)
  ELSE LET r == caught(connectedNodes(st[id].nodes, st[id].edges, nodeId), optimised) IN
       IF r.raised THEN Outcome(st, Message(400, r.message))
       ELSE Outcome(st, Reply(200, [connectedNodes |-> r.connectedNodes]))

Init ==
  /\ store = NoStore
  /\ pending = {}
  /\ request = NotRun
  /\ response = NotRun
  /\ nodes = <<>>
  /\ edges = <<>>
  /\ startId = "1"
  /\ validation = NotRun
  /\ connected = NotRun
  /\ IdleDfs

Idle == response = NotRun

Respond(req, outcome) ==
  /\ request' = req
  /\ store' = outcome.store
  /\ response' = outcome.response
  /\ UNCHANGED <<nodes, edges, startId, validation, connected,
                 pc, adjList, frames, visited, result, calls>>

\* a handler with one store operation: it runs from the request to its
\* response in one step
Handle(req, outcome) == Respond(req, outcome) /\ pending' = pending

Post ==
  /\ Idle
  /\ \E body \in PostBodies :
       Handle([method |-> "POST", body |-> body], post(store, body))

GetById ==
  /\ Idle
  /\ \E id \in FlowchartIds :
       Handle([method |-> "GET", id |-> id], getById(store, id))

\* PUT up to its first answer or to the call of save(): the save is a second
\* store operation, and other requests are served while it is awaited
Put ==
  /\ Idle
  /\ \E id \in FlowchartIds, body \in PutBodies :
     \E r \in {put(store, id, body)} :
     IF Has(r, "response")
     THEN Handle([method |-> "PUT", id |-> id, body |-> body], r)
     ELSE /\ Cardinality(pending) < MaxPending
          /\ versioned(r.save.modified) => r.save.flowchart.__v < MaxVersion
          /\ pending' = pending \cup {r.save}
          /\ UNCHANGED <<store, request, response, nodes, edges, startId, validation,
                         connected, pc, adjList, frames, visited, result, calls>>

\* an awaited save() reaches the collection and the PUT is answered
PutSave ==
  /\ Idle
  /\ \E awaited \in pending :
     /\ Respond([method |-> "PUT", id |-> awaited.flowchart._id, saved |-> awaited],
                save(store, awaited.flowchart, awaited.modified))
     /\ pending' = pending \ {awaited}

Delete ==
  /\ Idle
  /\ \E id \in FlowchartIds :
       Handle([method |-> "DELETE", id |-> id], delete(store, id))

Outgoing ==
  /\ Idle
  /\ \E id \in FlowchartIds, nodeId \in Ids :
     Handle([method |-> "GET outgoing", id |-> id, nodeId |-> nodeId],
            outgoing(store, id, nodeId))

ConnectedNodes ==
  /\ Idle
  /\ \E id \in FlowchartIds, nodeId \in Ids, optimised \in BOOLEAN :
     Handle([method |-> "GET connected", id |-> id, nodeId |-> nodeId],
            connectedRoute(store, id, nodeId, optimised))

\* Number(req.params.id) is NaN: every /:id route answers 400 before it
\* reads the collection
NonNumericId ==
  /\ Idle
  /\ \E method \in {"GET", "PUT", "DELETE", "GET outgoing", "GET connected"} :
     Handle([method |-> method, path |-> "abc"], Outcome(store, InvalidIdFormat))

\* the client receives the response
Deliver ==
  /\ ~Idle
  /\ response' = NotRun
  /\ request' = NotRun
  /\ UNCHANGED <<store, pending, nodes, edges, startId, validation, connected,
                 pc, adjList, frames, visited, result, calls>>

Next ==
  \/ Post \/ GetById \/ Put \/ PutSave \/ Delete \/ Outgoing \/ ConnectedNodes
  \/ NonNumericId \/ Deliver

Spec == Init /\ [][Next]_vars

(***************************************************************************)
(* Graph notions the claims are stated in, defined without the traversals. *)
(***************************************************************************)
DeclaredIds(ns) == {n.id : n \in Range(ns)}

\* some edge names a source or a target that is not a declared node
HasDanglingEdge(ns, es) ==
  \E e \in Range(es) : e.source \notin DeclaredIds(ns) \/ e.target \notin DeclaredIds(ns)

\* identifiers named by an edge and absent from the node set
OffendingIds(ns, es) ==
  {x \in UNION {{e.source, e.target} : e \in Range(es)} : x \notin DeclaredIds(ns)}

Successors(es, S) == {e.target : e \in {d \in Range(es) : d.source \in S}}

RECURSIVE Closure(_, _)
Closure(es, S) ==
  LET T == S \cup Successors(es, S) IN IF T = S THEN S ELSE Closure(es, T)

\* the identifiers reached from s by a directed path of one or more edges
ReachableFrom(es, s) == Closure(es, Successors(es, {s}))

HasCycle(es) == \E e \in Range(es) : e.source \in ReachableFrom(es, e.source)

WellFormed(ns, es) == ~HasDanglingEdge(ns, es) /\ ~HasCycle(es)

Validated == validation # NotRun
Answered == connected # NotRun
Returned == Answered /\ ~connected.raised

(***************************************************************************)
(* Claims on the engine (SpecEngine).                                      *)
(***************************************************************************)

\* C2: every node list and edge list whose edge endpoints are all declared
\* and whose edges form no directed cycle is accepted by validateGraph
\* (valid: true).
C2_AcyclicAccepted ==
  (Validated /\ WellFormed(nodes, edges)) => validation = Valid

\* C3: when some edge names an undeclared source or target, validateGraph
\* returns the failure 'Edge references invalid nodes', cycle or no cycle,
\* and never the cycle failure.
C3_DanglingRejected ==
  (Validated /\ HasDanglingEdge(nodes, edges)) =>
     /\ validation = [valid |-> FALSE, message |-> "Edge references invalid nodes"]
     /\ validation # [valid |-> FALSE, message |-> "Graph contains a cycle"]

\* C3 witness: a validated input with a dangling edge whose edges also
\* form a cycle.
C3_Witness ==
  /\ Validated /\ HasDanglingEdge(nodes, edges) /\ HasCycle(edges)
  /\ validation = EdgeReferencesInvalidNode

\* C4: when all edge endpoints are declared and the edges contain a directed
\* cycle, validateGraph returns the failure 'Graph contains a cycle'.
C4_CycleRejected ==
  (Validated /\ ~HasDanglingEdge(nodes, edges) /\ HasCycle(edges)) =>
     validation = GraphContainsCycle

\* C5: the sequence returned by the connected-nodes query never contains
\* the start node id, even when a cycle leads back to it.
C5_StartExcluded ==
  Returned => startId \notin Range(connected.connectedNodes)

\* C6: on a well-formed graph the sequence returned by the connected-nodes
\* query lists, without duplicates, exactly the ids other than the start id
\* that a directed path of one or more edges reaches from the start node.
C6_ExactReachableSet ==
  (Returned /\ WellFormed(nodes, edges)) =>
     /\ NoDuplicates(connected.connectedNodes)
     /\ Range(connected.connectedNodes) = ReachableFrom(edges, startId) \ {startId}

\* C8: neither engine operation raises on well-typed input: validateGraph
\* returns success or one of the two failures, and the connected-nodes query
\* returns a sequence, empty when the start id is undeclared or has no
\* outgoing edge.
C8_NeverRaises ==
  /\ Validated => validation \in {Valid, EdgeReferencesInvalidNode, GraphContainsCycle}
  /\ Answered =>
       /\ ~connected.raised
       /\ (startId \notin DeclaredIds(nodes) \/ Successors(edges, {startId}) = {})
             => connected.connectedNodes = <<>>

\* C9 (as stated): a reference failure names the offending identifier, i.e.
\* the returned object carries, besides the flag, an identifier that an edge
\* names and the node set lacks.
C9_NamesOffendingId ==
  (Validated /\ OffendingIds(nodes, edges) # {}) =>
     \E f \in DOMAIN validation \ {"valid"} : validation[f] \in OffendingIds(nodes, edges)

\* C9 (amended): a reference failure is the fixed object {valid: false,
\* message: 'Edge references invalid nodes'}: it has no field besides the
\* flag and the fixed message, whichever identifier is absent.
C9_FixedMessage ==
  (Validated /\ OffendingIds(nodes, edges) # {}) =>
     /\ DOMAIN validation = {"valid", "message"}
     /\ validation.valid = FALSE
     /\ validation.message = "Edge references invalid nodes"
     /\ validation.message \notin OffendingIds(nodes, edges)

\* C9 witness: two different identifiers are absent from the node set and
\* the reference failure was returned.
C9_Witness ==
  /\ Validated /\ Cardinality(OffendingIds(nodes, edges)) = 2
  /\ validation = EdgeReferencesInvalidNode

(***************************************************************************)
(* Claims on the traversal run step by step (SpecDfs).                     *)
(***************************************************************************)
Ended == pc \in {"done", "raised"}

\* at most one activation of dfs per discovered node, and one more for the
\* start node, which is expanded before anything is marked
CallsBounded == \A n \in CallIds : calls[n] <= (IF n = startId THEN 2 ELSE 1)

\* C7: the depth-first traversal of the connected-nodes query ends for every
\* graph and start id within the bounds, cycles and self-loops included, and
\* it expands the outgoing edges of a node at most twice (the start node) or
\* once (any other node).
C7_DfsTerminates == <>Ended /\ []CallsBounded

\* C7 witness: the traversal has returned on a graph where a cycle leads
\* back to the start node, which was therefore expanded twice.
C7_Witness ==
  /\ pc = "done" /\ startId \in ReachableFrom(edges, startId)
  /\ calls[startId] = 2
  /\ Len(result) = 2

\* The step-by-step run and the one-step computation give the same answer.
DfsAgreesWithConnectedNodes ==
  /\ pc = "done" => connectedNodes(nodes, edges, startId) =
                      [raised |-> FALSE, connectedNodes |-> result]
  /\ pc = "raised" => connectedNodes(nodes, edges, startId).raised

(***************************************************************************)
(* Claims on the HTTP handlers (Spec).                                     *)
(***************************************************************************)

\* C1: after any sequence of create, update and delete requests from an
\* empty store, every stored flowchart is well-formed: each edge's source
\* and target are ids of its nodes, and its edges form no directed cycle.
C1_StoreWellFormed ==
  \A id \in DOMAIN store : WellFormed(store[id].nodes, store[id].edges)

\* C10: a create request that carries a name and a well-formed acyclic graph
\* and no _id is accepted: status 201, a body with an _id, and the flowchart
\* retrievable under that _id.
C10_CreateWithoutId ==
  (/\ ~Idle
   /\ request.method = "POST"
   /\ ~Has(request.body, "_id")
   /\ Has(request.body, "name")
   /\ WellFormed(request.body.nodes, request.body.edges)) =>
     /\ response.status = 201
     /\ Has(response.body, "_id")
     /\ response.body._id \in DOMAIN store
     /\ getById(store, response.body._id).response = Reply(200, response.body)

\* The positions of the edges of es that leave n, and the edge at the k-th
\* such position.
LeavingAt(es, n) == {i \in 1..Len(es) : es[i].source = n}

KthLeaving(es, n, k) ==
  es[CHOOSE i \in LeavingAt(es, n) :
       Cardinality({j \in LeavingAt(es, n) : j <= i}) = k]

\* the edges of es that leave n, in list order, repeated edges kept
EdgesLeaving(es, n) ==
  [k \in 1..Cardinality(LeavingAt(es, n)) |-> KthLeaving(es, n, k)]

\* a request for the outgoing edges of a node of a stored flowchart is
\* answered in this step
OutgoingAnswered ==
  /\ Idle /\ response' # NotRun
  /\ request'.method = "GET outgoing"
  /\ Has(request', "id")
  /\ request'.id \in DOMAIN store

\* C11: for every stored flowchart and node id the outgoing-edges query
\* answers 200 with exactly the stored edges whose source is that id, in
\* stored order and with repeated edges kept (the empty list when the node
\* has no outgoing edge or is no node of the flowchart), and it leaves the
\* store unchanged.
C11_OutgoingEdges ==
  [][OutgoingAnswered =>
       /\ response'.status = 200
       /\ response'.body = EdgesLeaving(store[request'.id].edges, request'.nodeId)
       /\ (\/ request'.nodeId \notin DeclaredIds(store[request'.id].nodes)
           \/ Successors(store[request'.id].edges, {request'.nodeId}) = {})
             => response'.body = <<>>
       /\ store' = store]_vars

\* the verdict of validateGraph on the graph a request body carries
Verdict(body) == validateGraph(body.nodes, body.edges)

\* the handler validates the graph of this request and validateGraph rejects
\* it: a create that carries an _id, or an update of a stored flowchart that
\* carries both nodes and edges
RejectedByValidation(req, st) ==
  /\ req.method \in {"POST", "PUT"}
  /\ Has(req, "body")
  /\ Has(req.body, "nodes") /\ Has(req.body, "edges")
  /\ req.method = "POST" => Has(req.body, "_id")
  /\ req.method = "PUT" => req.id \in DOMAIN st
  /\ ~Raised(Verdict(req.body))
  /\ ~Verdict(req.body).valid

\* C12: a create or update whose graph validateGraph rejects is answered 400
\* with the validation message and the store is the same after the request
\* as before it: no flowchart is added, and the name, nodes and edges of the
\* targeted flowchart are untouched even when the request carried a new name.
C12_RejectedChangesNothing ==
  [][(Idle /\ response' # NotRun /\ RejectedByValidation(request', store)) =>
       /\ response' = Message(400, Verdict(request'.body).message)
       /\ store' = store
       /\ DOMAIN store' = DOMAIN store
       /\ request'.method = "PUT" =>
            /\ store'[request'.id].name = store[request'.id].name
            /\ store'[request'.id].nodes = store[request'.id].nodes
            /\ store'[request'.id].edges = store[request'.id].edges]_vars

\* C12 witness: an update of a stored flowchart carrying a new name and a
\* cyclic graph was answered 400 with the validation message.
C12_Witness ==
  /\ ~Idle
  /\ request.method = "PUT"
  /\ RejectedByValidation(request, store)
  /\ Has(request.body, "name")
  /\ request.body.name # store[request.id].name
  /\ request.body.edges # store[request.id].edges
  /\ response = Message(400, "Graph contains a cycle")

====
